---- MODULE Spec2Model ----
(***************************************************************************)
(* A model of CLUSTERING_API.py: a Flask service with two routes.          *)
(*   POST /cluster           cluster_data()      (lines 194-222)           *)
(*   GET  /clustering-guide  clustering_guide()  (lines 225-229)           *)
(* Requests are processed one at a time; each action is one whole handler. *)
(* The only state that outlives a request is the file                      *)
(* 'clusters_output.xlsx' in the working directory.                        *)
(***************************************************************************)
EXTENDS Integers, Sequences, FiniteSets, TLC

\* ------------------------------------------------------------------ bounds
\* largest number of rows of an uploaded spreadsheet
MaxRows == 2
\* largest number of form fields a POST /cluster request supplies
MaxFields == 2
\* decimal digits kept after the point in the model of a float
FracDigits == 1

\* ----------------------------------------------------------------- strings
\* A Python str is an atomic TLA+ string; the operations that look inside a
\* str (int(), float(), str.lower()) work on its characters, given by Chars.
Chars ==
  [s \in {"", "2", " 4 ", "x", "0.3", "2.5", "3", "5", "0.5", "1.5", "english",
          "farsi", "arabic", "french", "Farsi", "FRENCH", "german"} |->
     CASE s = ""        -> << >>
       [] s = "3"       -> <<"3">>
       [] s = "5"       -> <<"5">>
       [] s = "0.5"     -> <<"0", ".", "5">>
       [] s = "1.5"     -> <<"1", ".", "5">>
       [] s = "2"       -> <<"2">>
       [] s = " 4 "     -> <<" ", "4", " ">>
       [] s = "x"       -> <<"x">>
       [] s = "0.3"     -> <<"0", ".", "3">>
       [] s = "2.5"     -> <<"2", ".", "5">>
       [] s = "english" -> <<"e", "n", "g", "l", "i", "s", "h">>
       [] s = "farsi"   -> <<"f", "a", "r", "s", "i">>
       [] s = "arabic"  -> <<"a", "r", "a", "b", "i", "c">>
       [] s = "french"  -> <<"f", "r", "e", "n", "c", "h">>
       [] s = "Farsi"   -> <<"F", "a", "r", "s", "i">>
       [] s = "FRENCH"  -> <<"F", "R", "E", "N", "C", "H">>
       [] s = "german"  -> <<"g", "e", "r", "m", "a", "n">>]

\* the str with the given characters
Str(cs) == CHOOSE s \in DOMAIN Chars : Chars[s] = cs

lowerChar(c) ==
  CASE c = "A" -> "a" [] c = "B" -> "b" [] c = "C" -> "c" [] c = "E" -> "e"
    [] c = "F" -> "f" [] c = "G" -> "g" [] c = "H" -> "h" [] c = "I" -> "i"
    [] c = "L" -> "l" [] c = "M" -> "m" [] c = "N" -> "n" [] c = "R" -> "r"
    [] c = "S" -> "s" [] OTHER -> c

\* str.lower(): every cased character replaced by its lowercase form
lower(s) == Str([i \in 1..Len(Chars[s]) |-> lowerChar(Chars[s][i])])

Digits == {"0", "1", "2", "3", "4", "5", "6", "7", "8", "9"}

DigitVal(c) ==
  CASE c = "0" -> 0 [] c = "1" -> 1 [] c = "2" -> 2 [] c = "3" -> 3
    [] c = "4" -> 4 [] c = "5" -> 5 [] c = "6" -> 6 [] c = "7" -> 7
    [] c = "8" -> 8 [] c = "9" -> 9

RECURSIVE lstrip(_)
lstrip(cs) == IF cs # << >> /\ Head(cs) = " " THEN lstrip(Tail(cs)) ELSE cs

RECURSIVE rstrip(_)
rstrip(cs) ==
  IF cs # << >> /\ cs[Len(cs)] = " "
  THEN rstrip(SubSeq(cs, 1, Len(cs) - 1)) ELSE cs

strip(cs) == rstrip(lstrip(cs))

RECURSIVE DecVal(_)
DecVal(ds) ==
  IF ds = << >> THEN 0
  ELSE 10 * DecVal(SubSeq(ds, 1, Len(ds) - 1)) + DigitVal(ds[Len(ds)])

RECURSIVE Pow10(_)
Pow10(n) == IF n = 0 THEN 1 ELSE 10 * Pow10(n - 1)

AllDigits(cs) == \A i \in 1..Len(cs) : cs[i] \in Digits

Signed(cs) == cs # << >> /\ Head(cs) \in {"+", "-"}
Unsigned(cs) == IF Signed(cs) THEN Tail(cs) ELSE cs
Sign(cs) == IF cs # << >> /\ Head(cs) = "-" THEN -1 ELSE 1

\* the result of a conversion: a value, or ValueError raised
Val(v) == [ok |-> TRUE, val |-> v]
ValueError == [ok |-> FALSE, val |-> 0]

\* int(s) of a str: surrounding blanks dropped, optional sign, decimal
\* digits; anything else raises ValueError
int(s) ==
  LET t == strip(Chars[s])
      body == Unsigned(t)
  IN  IF body # << >> /\ AllDigits(body)
      THEN Val(Sign(t) * DecVal(body))
      ELSE ValueError

\* a float is kept as the integer  value * 10^FracDigits
Dec(m, d) == m * Pow10(FracDigits - d)

PointAt(cs) ==
  IF \E i \in 1..Len(cs) : cs[i] = "."
  THEN CHOOSE i \in 1..Len(cs) : cs[i] = "." /\ \A j \in 1..(i - 1) : cs[j] # "."
  ELSE Len(cs) + 1

\* float(s) of a str: surrounding blanks dropped, optional sign, digits with
\* at most one point and at least one digit; anything else raises ValueError
float(s) ==
  LET t == strip(Chars[s])
      body == Unsigned(t)
      p == PointAt(body)
      whole == SubSeq(body, 1, p - 1)
      frac == SubSeq(body, p + 1, Len(body))
      kept == SubSeq(frac, 1, IF Len(frac) < FracDigits THEN Len(frac) ELSE FracDigits)
  IN  IF AllDigits(whole) /\ AllDigits(frac) /\ Len(whole) + Len(frac) > 0
      THEN Val(Sign(t) * (DecVal(whole) * Pow10(FracDigits) + Dec(DecVal(kept), Len(kept))))
      ELSE ValueError

\* -------------------------------------------------------------- data model
\* the five method names perform_clustering recognizes (lines 136-145)
Methods == {"kmeans", "dbscan", "hierarchical", "meanshift", "agglomerative"}

\* A DataFrame is a function from column names to columns of equal length.
\* The uploaded spreadsheets are the first n rows of one sheet whose names
\* are neither sorted nor all distinct.
SheetRows ==
  <<[Name |-> "b", x |-> 1], [Name |-> "a", x |-> 0],
    [Name |-> "b", x |-> 0], [Name |-> "c", x |-> 1]>>

NamedFrames ==
  { [c \in {"Name", "x"} |-> [i \in 1..n |-> SheetRows[i][c]]] :
      n \in { m \in 0..MaxRows : m <= Len(SheetRows) } }

\* a spreadsheet without the identifier column
UnnamedFrame == [c \in {"x"} |-> <<0>>]

nrows(data) == Len(data[CHOOSE c \in DOMAIN data : TRUE])

\* an uploaded file: a spreadsheet, or bytes that are no spreadsheet
Uploads ==
  { [readable |-> TRUE, df |-> d] : d \in NamedFrames \cup {UnnamedFrame} }
  \cup { [readable |-> FALSE, df |-> UnnamedFrame] }

\* the empty message
NoMsg == << >>

\* pd.read_excel(file): the table, or the parser's error
read_excel(file) ==
  IF file.readable
  THEN { [raised |-> "", df |-> file.df] }
  ELSE { [raised |-> e, df |-> file.df] : e \in {"ValueError", "BadZipFile"} }

\* ------------------------------------------------- the clustering library
\* labels a routine of sklearn / scipy can assign to a row (-1: noise)
Labels == {-1, 0, 1}

\* one invocation of a library routine, with the parameters it was given
Invocation(routine, n_clusters, eps, min_samples, linkage_method, threshold, criterion) ==
  [routine |-> routine, n_clusters |-> n_clusters, eps |-> eps,
   min_samples |-> min_samples, method |-> linkage_method,
   threshold |-> threshold, criterion |-> criterion]

\* what a library routine can do with n rows: one label per row, or refuse
\* its input with a ValueError
LibraryFitPredict(n, call) ==
  { [raised |-> "", msg |-> NoMsg, labels |-> l, calls |-> <<call>>] : l \in [1..n -> Labels] }
  \cup { [raised |-> "ValueError", msg |-> <<"library">>, labels |-> << >>, calls |-> <<call>>] }

\* ------------------------------------------------------------- clusterers
\* a clusterer object: its class and its attributes
Object(cls, data, n_clusters, eps, min_samples, linkage_method, threshold, criterion) ==
  [cls |-> cls, data |-> data, n_clusters |-> n_clusters, eps |-> eps,
   min_samples |-> min_samples, method |-> linkage_method,
   threshold |-> threshold, criterion |-> criterion]

\* the methods named 'init' (lines 10, 33, 57, 82, 104): ordinary methods
\* that set the attributes of self
KMeansClusterer_init(data, n_clusters) ==
  Object("KMeansClusterer", data, n_clusters, 0, 0, "", 0, "")
DBSCANClusterer_init(data, eps, min_samples) ==
  Object("DBSCANClusterer", data, 0, eps, min_samples, "", 0, "")
HierarchicalClusterer_init(data, linkage_method, threshold) ==
  Object("HierarchicalClusterer", data, 0, 0, 0, linkage_method, threshold, "distance")
MeanShiftClusterer_init(data) ==
  Object("MeanShiftClusterer", data, 0, 0, 0, "", 0, "")
AgglomerativeClusterer_init(data, n_clusters) ==
  Object("AgglomerativeClusterer", data, n_clusters, 0, 0, "", 0, "")

\* Calling a class with arguments runs its __init__ on a new object.  None
\* of the five classes defines __init__ (each defines 'init'), so it is
\* object.__init__ that runs, and it raises
\* TypeError("<class>() takes no arguments"); initialised is the object the
\* method 'init' would have made.
ClassCall(initialised) == [raised |-> "TypeError", obj |-> initialised]

KMeansClusterer(features, n_clusters) ==
  ClassCall(KMeansClusterer_init(features, n_clusters))
DBSCANClusterer(features, eps, min_samples) ==
  ClassCall(DBSCANClusterer_init(features, eps, min_samples))
HierarchicalClusterer(features, linkage_method, threshold) ==
  ClassCall(HierarchicalClusterer_init(features, linkage_method, threshold))
MeanShiftClusterer(features) ==
  ClassCall(MeanShiftClusterer_init(features))
AgglomerativeClusterer(features, n_clusters) ==
  ClassCall(AgglomerativeClusterer_init(features, n_clusters))

\* fit_predict of each class: one call of the library routine on self.data
\* with the attributes of self
fit_predict(self) ==
  LET n == Len(self.data)
  IN  CASE self.cls = "KMeansClusterer" ->
             LibraryFitPredict(n, Invocation("KMeans", self.n_clusters, 0, 0, "", 0, ""))
        [] self.cls = "DBSCANClusterer" ->
             LibraryFitPredict(n, Invocation("DBSCAN", 0, self.eps, self.min_samples, "", 0, ""))
        [] self.cls = "HierarchicalClusterer" ->
             LibraryFitPredict(n, Invocation("linkage+fcluster", 0, 0, 0, self.method,
                                             self.threshold, self.criterion))
        [] self.cls = "MeanShiftClusterer" ->
             LibraryFitPredict(n, Invocation("MeanShift", 0, 0, 0, "", 0, ""))
        [] self.cls = "AgglomerativeClusterer" ->
             LibraryFitPredict(n, Invocation("AgglomerativeClustering", self.n_clusters,
                                             0, 0, "", 0, ""))

\* the message of the ValueError of line 147, cut at the method names
InvalidMethodMsg_stale ==
  <<"Invalid clustering method. Choose '", "kmeans", "', '", "dbscan", "', or '",
    "hierarchical", "'.">>
InvalidMethodMsg ==
  <<"Invalid clustering method. Choose '", "kmeans", "', '", "dbscan", "', '",
    "hierarchical", "', '", "meanshift", "', or '", "agglomerative", "'.">>

\* a result table: one (Name, Cluster) pair per row, in row order
Table(names, labels) == [i \in 1..Len(names) |-> [Name |-> names[i], Cluster |-> labels[i]]]

\* what perform_clustering does: the exception it raises or the table it
\* returns, and the library invocations it made
Raised(e, m) == [raised |-> e, msg |-> m, table |-> << >>, calls |-> << >>]

perform_clustering(data, method, n_clusters, eps, min_samples, threshold) ==
  IF "Name" \notin DOMAIN data THEN { Raised("KeyError", <<"Name">>) }
  ELSE
    LET names == data["Name"]
        features == [i \in 1..nrows(data) |-> [c \in DOMAIN data \ {"Name"} |-> data[c][i]]]
    IN  IF method \notin Methods THEN { Raised("ValueError", InvalidMethodMsg) }
        ELSE
          LET clusterer ==
                CASE method = "kmeans" -> KMeansClusterer(features, n_clusters)
                  [] method = "dbscan" -> DBSCANClusterer(features, eps, min_samples)
                  [] method = "hierarchical" -> HierarchicalClusterer(features, "ward", threshold)
                  [] method = "meanshift" -> MeanShiftClusterer(features)
                  [] method = "agglomerative" -> AgglomerativeClusterer(features, n_clusters)
          IN  IF clusterer.raised # "" THEN { Raised(clusterer.raised, NoMsg) }
              ELSE { IF r.raised # ""
                     THEN [raised |-> r.raised, msg |-> r.msg, table |-> << >>, calls |-> r.calls]
                     ELSE [raised |-> "", msg |-> NoMsg, table |-> Table(names, r.labels),
                           calls |-> r.calls]
                     : r \in fit_predict(clusterer.obj) }

\* ------------------------------------------------------------------- guide
Algorithms == {"kmeans", "dbscan", "hierarchical", "meanshift", "agglomerative"}
Languages == {"english", "farsi", "arabic", "french"}

\* the sentence of a language for an algorithm; the sentences that are not
\* ASCII are named by language and algorithm
Sentence(language, algorithm) ==
  CASE language = "english" /\ algorithm = "kmeans" ->
         "KMeans is best suited for spherical clusters with similar sizes and requires the number of clusters as input."
    [] language = "english" /\ algorithm = "dbscan" ->
         "DBSCAN is ideal for detecting arbitrary-shaped clusters and noise, without needing the number of clusters."
    [] language = "english" /\ algorithm = "hierarchical" ->
         "Hierarchical clustering is suitable for hierarchical structures, with dendrograms to visualize relationships."
    [] language = "english" /\ algorithm = "meanshift" ->
         "MeanShift is good for finding clusters with a high-density region without needing the number of clusters."
    [] language = "english" /\ algorithm = "agglomerative" ->
         "Agglomerative clustering works well for building a hierarchy of clusters using a bottom-up approach."
    [] language = "farsi" /\ algorithm = "kmeans" -> "farsi: kmeans"
    [] language = "farsi" /\ algorithm = "dbscan" -> "farsi: dbscan"
    [] language = "farsi" /\ algorithm = "hierarchical" -> "farsi: hierarchical"
    [] language = "farsi" /\ algorithm = "meanshift" -> "farsi: meanshift"
    [] language = "farsi" /\ algorithm = "agglomerative" -> "farsi: agglomerative"
    [] language = "arabic" /\ algorithm = "kmeans" -> "arabic: kmeans"
    [] language = "arabic" /\ algorithm = "dbscan" -> "arabic: dbscan"
    [] language = "arabic" /\ algorithm = "hierarchical" -> "arabic: hierarchical"
    [] language = "arabic" /\ algorithm = "meanshift" -> "arabic: meanshift"
    [] language = "arabic" /\ algorithm = "agglomerative" -> "arabic: agglomerative"
    [] language = "french" /\ algorithm = "kmeans" -> "french: kmeans"
    [] language = "french" /\ algorithm = "dbscan" -> "french: dbscan"
    [] language = "french" /\ algorithm = "hierarchical" -> "french: hierarchical"
    [] language = "french" /\ algorithm = "meanshift" -> "french: meanshift"
    [] language = "french" /\ algorithm = "agglomerative" -> "french: agglomerative"

\* the dictionary literal of lines 160-189
guides == [l \in Languages |-> [a \in Algorithms |-> Sentence(l, a)]]

\* dict.get(key, default)
get(dict, key, default) == IF key \in DOMAIN dict THEN dict[key] ELSE default

get_clustering_guide_farsi(language) == get(guides, lower(language), guides["farsi"])
get_clustering_guide(language) == get(guides, lower(language), guides["english"])

\* ---------------------------------------------------------------- requests
EmptyDict == [k \in {} |-> ""]
NoGuide == [a \in {} |-> ""]

FormKeys == {"method", "n_clusters", "eps", "min_samples", "threshold"}

\* the values a request can send in a form field
FieldValues(k) ==
  CASE k = "method" -> Methods \cup {"invalid"}
    [] k = "n_clusters" -> {"2", "x"}
    [] k = "eps" -> {"0.3", "x"}
    [] k = "min_samples" -> {" 4 "}
    [] k = "threshold" -> {"2.5"}

Forms ==
  UNION { { f \in [K -> UNION { FieldValues(k) : k \in FormKeys }] :
              \A k \in K : f[k] \in FieldValues(k) } :
          K \in { S \in SUBSET FormKeys : Cardinality(S) <= MaxFields } }

Files == {EmptyDict} \cup { [k \in {"file"} |-> u] : u \in Uploads }

Queries ==
  {EmptyDict} \cup
  { [k \in {"language"} |-> l] :
      l \in {"english", "farsi", "arabic", "french", "Farsi", "FRENCH", "german", ""} }

ClusterRequests ==
  { [route |-> "cluster", files |-> fs, form |-> f, query |-> EmptyDict] :
      fs \in Files, f \in Forms }

GuideRequests ==
  { [route |-> "guide", files |-> EmptyDict, form |-> EmptyDict, query |-> q] :
      q \in Queries }

NoRequest == [route |-> "none", files |-> EmptyDict, form |-> EmptyDict, query |-> EmptyDict]

\* --------------------------------------------------------------- responses
\* jsonify({"error": msg}), 400
Json400(msg) ==
  [status |-> 400, kind |-> "error", error |-> msg, exc |-> "", table |-> << >>, guide |-> NoGuide]

\* an exception no handler catches: Flask answers 500
Unhandled(e) ==
  [status |-> 500, kind |-> "unhandled", error |-> NoMsg, exc |-> e, table |-> << >>, guide |-> NoGuide]

\* send_file(...) of a file holding the table
Attachment(table) ==
  [status |-> 200, kind |-> "file", error |-> NoMsg, exc |-> "", table |-> table, guide |-> NoGuide]

\* jsonify(guide)
JsonGuide(guide) ==
  [status |-> 200, kind |-> "guide", error |-> NoMsg, exc |-> "", table |-> << >>, guide |-> guide]

NoResponse ==
  [status |-> 0, kind |-> "none", error |-> NoMsg, exc |-> "", table |-> << >>, guide |-> NoGuide]

\* -------------------------------------------------------------------- disk
\* the file 'clusters_output.xlsx': absent, or holding a table
NoFile == [exists |-> FALSE, table |-> << >>]
Holding(table) == [exists |-> TRUE, table |-> table]

\* result_df.to_excel(output_file, index=False): the file is replaced
to_excel(d, table) == Holding(table)

\* send_file(output_file, as_attachment=True): the file as it is on disk now
send_file(d) == IF d.exists THEN Attachment(d.table) ELSE Unhandled("FileNotFoundError")

\* ---------------------------------------------------------------- handlers
\* the keyword arguments of the call of perform_clustering at line 215
Args(method, n_clusters, eps, min_samples, threshold) ==
  [called |-> TRUE, method |-> method, n_clusters |-> n_clusters, eps |-> eps,
   min_samples |-> min_samples, threshold |-> threshold]
NoArgs ==
  [called |-> FALSE, method |-> "", n_clusters |-> 0, eps |-> 0, min_samples |-> 0, threshold |-> 0]

\* what a handler did: its response, the disk it leaves, the arguments it
\* passed to perform_clustering, the library invocations, the writes to disk
Outcome(r, d, a, c, w) == [resp |-> r, disk |-> d, args |-> a, calls |-> c, writes |-> w]

\* the value request.form.get(k, ...) falls back to (lines 206-210)
Default_n2(k) ==
  CASE k = "method" -> "kmeans"
    [] k = "n_clusters" -> 2
    [] k = "eps" -> Dec(5, 1)
    [] k = "min_samples" -> 5
    [] k = "threshold" -> Dec(15, 1)
Default(k) ==
  CASE k = "method" -> "kmeans"
    [] k = "n_clusters" -> 3
    [] k = "eps" -> Dec(5, 1)
    [] k = "min_samples" -> 5
    [] k = "threshold" -> Dec(15, 1)

\* int(request.form.get(k, default)) and float(request.form.get(k, default))
form_int(form, k) == IF k \in DOMAIN form THEN int(form[k]) ELSE Val(Default(k))
form_float(form, k) == IF k \in DOMAIN form THEN float(form[k]) ELSE Val(Default(k))

\* lines 214-222 for one result of perform_clustering
finish_catch_all(d, a, result) ==
  IF result.raised # ""
  THEN Outcome(Json400(result.msg), d, a, result.calls, 0)
  ELSE LET written == to_excel(d, result.table)
       IN  Outcome(send_file(written), written, a, result.calls, 1)
finish_write_first(d, a, result) ==
  LET written == to_excel(d, result.table)
  IN  IF result.raised = "ValueError"
      THEN Outcome(Json400(result.msg), written, a, result.calls, 1)
      ELSE IF result.raised # ""
      THEN Outcome(Unhandled(result.raised), written, a, result.calls, 1)
      ELSE Outcome(send_file(written), written, a, result.calls, 1)
finish_serve_last(d, a, result) ==
  IF result.raised = "ValueError"
  THEN Outcome(IF d.exists THEN send_file(d) ELSE Json400(result.msg), d, a, result.calls, 0)
  ELSE IF result.raised # ""
  THEN Outcome(Unhandled(result.raised), d, a, result.calls, 0)
  ELSE LET written == to_excel(d, result.table)
       IN  Outcome(send_file(written), written, a, result.calls, 1)
finish(d, a, result) ==
  IF result.raised = "ValueError"
  THEN Outcome(Json400(result.msg), d, a, result.calls, 0)
  ELSE IF result.raised # ""
  THEN Outcome(Unhandled(result.raised), d, a, result.calls, 0)
  ELSE LET written == to_excel(d, result.table)
       IN  Outcome(send_file(written), written, a, result.calls, 1)

\* POST /cluster, lines 195-222
cluster_data(request, d) ==
  IF "file" \notin DOMAIN request.files
  THEN { Outcome(Json400(<<"No file uploaded">>), d, NoArgs, << >>, 0) }
  ELSE
    LET file == request.files["file"]
        form == request.form
        method == get(form, "method", Default("method"))
        n_clusters == form_int(form, "n_clusters")
        eps == form_float(form, "eps")
        min_samples == form_int(form, "min_samples")
        threshold == form_float(form, "threshold")
    IN  IF ~(n_clusters.ok /\ eps.ok /\ min_samples.ok /\ threshold.ok)
        THEN { Outcome(Unhandled("ValueError"), d, NoArgs, << >>, 0) }
        ELSE
          LET a == Args(method, n_clusters.val, eps.val, min_samples.val, threshold.val)
          IN  UNION {
                IF read.raised # ""
                THEN { Outcome(Unhandled(read.raised), d, NoArgs, << >>, 0) }
                ELSE { finish(d, a, result) :
                         result \in perform_clustering(read.df, method, n_clusters.val, eps.val,
                                                       min_samples.val, threshold.val) }
                : read \in read_excel(file) }

\* GET /clustering-guide, lines 226-229
clustering_guide(request, d) ==
  LET language == lower(get(request.query, "language", "english"))
      guide == get_clustering_guide(language)
  IN  { Outcome(JsonGuide(guide), d, NoArgs, << >>, 0) }

\* ------------------------------------------------------------ state machine
VARIABLES
  disk,    \* the file 'clusters_output.xlsx'
  req,     \* the request processed last
  resp,    \* the response it got
  args,    \* the arguments it passed to perform_clustering
  calls,   \* the library routines it invoked
  writes   \* the number of times it wrote the file

vars == <<disk, req, resp, args, calls, writes>>

\* a file a run of the service finds in its working directory
OldTable == <<[Name |-> "z", Cluster |-> 0]>>

Init ==
  /\ disk \in {NoFile, Holding(OldTable)}
  /\ req = NoRequest
  /\ resp = NoResponse
  /\ args = NoArgs
  /\ calls = << >>
  /\ writes = 0

Took(r, o) ==
  /\ req' = r
  /\ resp' = o.resp
  /\ disk' = o.disk
  /\ args' = o.args
  /\ calls' = o.calls
  /\ writes' = o.writes

PostCluster == \E r \in ClusterRequests : \E o \in cluster_data(r, disk) : Took(r, o)

GetGuide == \E r \in GuideRequests : \E o \in clustering_guide(r, disk) : Took(r, o)

Next == PostCluster \/ GetGuide

Spec == Init /\ [][Next]_vars

TypeOK ==
  /\ disk.exists \in BOOLEAN
  /\ req \in ClusterRequests \cup GuideRequests \cup {NoRequest}
  /\ resp.status \in {0, 200, 400, 500}
  /\ writes \in {0, 1}

\* ------------------------------------------------------------------ claims
\* the request processed last, seen as the claims describe requests
IsPost == req.route = "cluster"
HasFile == IsPost /\ "file" \in DOMAIN req.files
Upload == req.files["file"]
Readable == HasFile /\ Upload.readable
HasNameColumn == Readable /\ "Name" \in DOMAIN Upload.df
SentMethod == IsPost /\ "method" \in DOMAIN req.form
MethodUsed == IF SentMethod THEN req.form["method"] ELSE "kmeans"
ParametersParse ==
  /\ \A k \in {"n_clusters", "min_samples"} \cap DOMAIN req.form : int(req.form[k]).ok
  /\ \A k \in {"eps", "threshold"} \cap DOMAIN req.form : float(req.form[k]).ok
ListsMethods(msg) == \A m \in Methods : \E i \in 1..Len(msg) : msg[i] = m

\* C1: a POST /cluster request with a spreadsheet that has a 'Name' column
\* and a method among the five succeeds, and its table has one row per
\* uploaded row, with the uploaded names in order, each with one label.
C1_ValidRequestSucceeds ==
  (HasNameColumn /\ SentMethod /\ MethodUsed \in Methods) =>
    /\ resp.status = 200
    /\ resp.kind = "file"
    /\ Len(resp.table) = nrows(Upload.df)
    /\ \A i \in 1..Len(resp.table) :
         /\ resp.table[i].Name = Upload.df["Name"][i]
         /\ resp.table[i].Cluster \in Labels

\* C2 as stated: every POST /cluster request that carries a file and an
\* unrecognized method is answered 400 with the message that lists the methods.
C2_AnyFileInvalidMethod400 ==
  (HasFile /\ SentMethod /\ MethodUsed \notin Methods) =>
    (resp.status = 400 /\ resp.kind = "error" /\ ListsMethods(resp.error))

\* C2: a POST /cluster request with an unrecognized method is answered 400
\* with the message that lists the five methods, provided its parameters
\* parse and its file is a spreadsheet with a 'Name' column.
C2_InvalidMethod400 ==
  (HasNameColumn /\ ParametersParse /\ SentMethod /\ MethodUsed \notin Methods) =>
    (resp.status = 400 /\ resp.kind = "error" /\ ListsMethods(resp.error))

C2_Witness ==
  /\ HasNameColumn /\ ParametersParse /\ SentMethod /\ MethodUsed = "invalid"
  /\ resp.status = 400
  /\ resp.error = InvalidMethodMsg

\* the language key of a guide request, "english" when none is sent
LanguageKey == IF "language" \in DOMAIN req.query THEN req.query["language"] ELSE "english"

\* C3 as stated: the keys 'farsi', 'arabic', 'french' get their dictionary,
\* every other key and a missing key get the English one, and the result
\* has the five algorithm keys.
C3_ExactKeyLookup ==
  req.route = "guide" =>
    /\ resp.guide = IF LanguageKey \in {"farsi", "arabic", "french"}
                    THEN guides[LanguageKey] ELSE guides["english"]
    /\ DOMAIN resp.guide = Algorithms

\* C3: the language key is compared without regard to case: a key that is
\* 'farsi', 'arabic' or 'french' once lowercased gets that dictionary, every
\* other key and a missing key get the English one, and the result has the
\* five algorithm keys.
C3_GuideLookup ==
  req.route = "guide" =>
    /\ resp.status = 200
    /\ resp.guide = IF lower(LanguageKey) \in {"farsi", "arabic", "french"}
                    THEN guides[lower(LanguageKey)] ELSE guides["english"]
    /\ DOMAIN resp.guide = Algorithms

C3_Witness ==
  /\ req.route = "guide"
  /\ LanguageKey = "Farsi"
  /\ resp.guide = guides["farsi"]
  /\ resp.guide # guides["english"]

\* the one library invocation the claim C4 expects for the arguments a
ExpectedInvocation(a) ==
  CASE a.method = "kmeans" -> Invocation("KMeans", a.n_clusters, 0, 0, "", 0, "")
    [] a.method = "dbscan" -> Invocation("DBSCAN", 0, a.eps, a.min_samples, "", 0, "")
    [] a.method = "hierarchical" ->
         Invocation("linkage+fcluster", 0, 0, 0, "ward", a.threshold, "distance")
    [] a.method = "meanshift" -> Invocation("MeanShift", 0, 0, 0, "", 0, "")
    [] a.method = "agglomerative" ->
         Invocation("AgglomerativeClustering", a.n_clusters, 0, 0, "", 0, "")

\* C4: when perform_clustering is called with a method among the five and a
\* table with a 'Name' column, exactly one library routine is invoked, the
\* one of that method with the request's parameters, and no other.
C4_SelectAndRun ==
  (args.called /\ args.method \in Methods /\ HasNameColumn) =>
    (Len(calls) = 1 /\ calls[1] = ExpectedInvocation(args))

\* C5 as stated: a POST /cluster request is answered 400 if and only if its
\* method is not one of the five.
C5_Only400IsInvalidMethod ==
  IsPost => (resp.status = 400 <=> MethodUsed \notin Methods)

\* C5: a POST /cluster request is answered 400 in exactly two cases: it
\* carries no file, or its method is not one of the five while its
\* parameters parse and its file is a spreadsheet with a 'Name' column.  An
\* unparsable parameter, a malformed spreadsheet and a missing 'Name' column
\* are unhandled errors, never a 400.
C5_Exactly400 ==
  IsPost =>
    /\ resp.status = 400 <=>
         \/ ~HasFile
         \/ HasNameColumn /\ ParametersParse /\ MethodUsed \notin Methods
    /\ (HasFile /\ ~(ParametersParse /\ HasNameColumn)) =>
         (resp.status = 500 /\ resp.kind = "unhandled")

C5_Witness ==
  /\ IsPost /\ ~HasFile /\ MethodUsed \in Methods
  /\ resp.status = 400
  /\ resp.error = <<"No file uploaded">>

\* the handler of a request
Handler(r, d) == IF r.route = "cluster" THEN cluster_data(r, d) ELSE clustering_guide(r, d)

\* C8: whatever was processed before and whatever the file on disk holds,
\* the response to a request is one the same request gets from a service
\* that has processed nothing and has no file on disk.
C8_NoRetainedState ==
  req.route # "none" => resp \in { o.resp : o \in Handler(req, NoFile) }

C8_Witness ==
  /\ disk.exists
  /\ IsPost /\ HasNameColumn /\ ParametersParse
  /\ resp.status = 400

\* the request r with every omitted parameter sent with its default value
DefaultText(k) ==
  CASE k = "method" -> "kmeans"
    [] k = "n_clusters" -> "3"
    [] k = "eps" -> "0.5"
    [] k = "min_samples" -> "5"
    [] k = "threshold" -> "1.5"
WithDefaults(r) ==
  [r EXCEPT !.form = [k \in FormKeys |-> IF k \in DOMAIN r.form THEN r.form[k] ELSE DefaultText(k)]]

\* C9: a POST /cluster request that omits parameters is processed as the
\* same request with method='kmeans', n_clusters=3, eps=0.5, min_samples=5,
\* threshold=1.5 sent for the omitted ones, and a parameter that is sent is
\* the value perform_clustering gets.
C9_Defaults ==
  IsPost =>
    /\ \E o \in cluster_data(WithDefaults(req), NoFile) :
         o.resp = resp /\ o.args = args /\ o.calls = calls
    /\ args.called =>
         /\ args.method = MethodUsed
         /\ args.n_clusters = int(WithDefaults(req).form["n_clusters"]).val
         /\ args.eps = float(WithDefaults(req).form["eps"]).val
         /\ args.min_samples = int(WithDefaults(req).form["min_samples"]).val
         /\ args.threshold = float(WithDefaults(req).form["threshold"]).val

C9_Witness ==
  /\ IsPost /\ args.called
  /\ DOMAIN req.form = {"eps"}
  /\ args.method = "kmeans" /\ args.n_clusters = 3 /\ args.min_samples = 5
  /\ args.eps = Dec(3, 1) /\ args.threshold = Dec(15, 1)

\* C10: a POST /cluster request that does not end in success leaves the
\* file 'clusters_output.xlsx' as it was.
C10_FailureLeavesFile ==
  [][(req'.route = "cluster" /\ resp'.kind # "file") => (disk' = disk /\ writes' = 0)]_vars

C10_Witness ==
  /\ IsPost /\ HasNameColumn /\ ParametersParse
  /\ resp.kind = "unhandled"
  /\ disk = Holding(OldTable)

====
